---------------------------- MODULE Spec2Model ----------------------------
(***************************************************************************)
(* Model of the two wallet engines of simple-eth-hd-wallet:                *)
(*                                                                         *)
(*   - package hdwallet (src/hdwallet.go): type Wallet, a pinned-account   *)
(*     registry (accounts slice + paths map) behind stateLock;             *)
(*   - package wallet (src/internal/wallet/simple_wallet.go): type         *)
(*     SimpleWallet, seed + accounts map behind mu.                        *)
(*                                                                         *)
(* Caller threads invoke the public methods; every method is split at the  *)
(* points where the Go scheduler can interleave another thread: lock and   *)
(* unlock operations and each access to shared memory.                     *)
(***************************************************************************)
EXTENDS Integers, Sequences, FiniteSets, TLC

(***************************************************************************)
(* Bounds of the model.                                                    *)
(***************************************************************************)
\* address_index values 0..MaxIndex are derived
MaxIndex == 1
\* total number of method calls made on the hdwallet Wallet
MaxCalls == 5
\* total number of method calls made on the SimpleWallet instances
MaxSWCalls == 3

\* caller threads
Threads == {"t1", "t2"}

VARIABLES
    \* ---- hdwallet.Wallet ----
    hdArr,      \* backing array of w.accounts (Len(hdArr) = cap(w.accounts))
    hdLen,      \* len(w.accounts)
    hdPaths,    \* w.paths: map[common.Address]accounts.DerivationPath
    stateLock,  \* w.stateLock: [w |-> writer or "none", r |-> set of readers]
    th,         \* per-thread position and locals of the running method
    calls,      \* number of calls started
    hdSeed,     \* w.seed: the bytes of the seed buffer
    \* ---- wallet.SimpleWallet ----
    wl,         \* the SimpleWallet instances, by name
    sth,        \* per-thread position and locals of the running method
    hist,       \* per wallet: how it was made, what Derive returned (history)
    swCalls,    \* number of calls started
    \* ---- package wallet: functions ----
    call        \* the call of a package-level function: [fn, arg, ret, done]

hdVars == <<hdArr, hdLen, hdPaths, stateLock, th, calls, hdSeed>>
swVars == <<wl, sth, hist, swCalls>>
vars == <<hdArr, hdLen, hdPaths, stateLock, th, calls, hdSeed,
          wl, sth, hist, swCalls, call>>

\* no call of a package-level function
NoCall == [fn |-> "none", arg |-> <<>>, ret |-> <<>>, done |-> FALSE]
NoPkg == call = NoCall

(***************************************************************************)
(* Derivation paths.  A component is a uint32; bit 31 is the hardened flag *)
(* (h), the low 31 bits are n.                                             *)
(***************************************************************************)
Hardened(n) == [h |-> TRUE, n |-> n]
Normal(n) == [h |-> FALSE, n |-> n]

\* m/44'/60'/0'/0/index
BasePath(index) ==
    <<Hardened(44), Hardened(60), Hardened(0), Normal(0), Normal(index)>>

\* A path one of whose child keys does not exist (hdkeychain.ErrInvalidChild).
BadPath == <<Hardened(44), Hardened(60), Hardened(0), Normal(1), Normal(0)>>

HDPaths == {BasePath(i) : i \in 0..MaxIndex} \cup {BadPath}

\* accounts.DerivationPath.String(): "m" then "/n" or "/n'" per component
PathString(path) ==
    <<"m">> \o [i \in 1..Len(path) |->
                  IF path[i].h THEN <<"/", path[i].n, "'">> ELSE <<"/", path[i].n>>]


(***************************************************************************)
(* hdwallet: key and address derivation.  The BIP-32 walk of               *)
(* derivePrivateKey and the Keccak hash of crypto.PubkeyToAddress are      *)
(* library code; a key is represented by the path it was derived at and an *)
(* address by the key it belongs to, so that distinct paths have distinct  *)
(* addresses.                                                              *)
(***************************************************************************)
NoAddress == [pubkeyOf |-> <<>>]

\* derivePrivateKey: the walk key.Child(n) over the path fails on BadPath
derivePrivateKey(path) ==
    IF path = BadPath THEN [err |-> "ErrInvalidChild", key |-> <<>>]
    ELSE [err |-> "nil", key |-> <<"priv", path>>]

\* derivePublicKey: the public half of the derived private key
derivePublicKey(path) ==
    LET k == derivePrivateKey(path)
    IN  IF k.err # "nil" THEN [err |-> k.err, pub |-> <<>>]
        ELSE [err |-> "nil", pub |-> <<"pub", k.key[2]>>]

\* deriveAddress: crypto.PubkeyToAddress of the derived public key
deriveAddress(path) ==
    LET k == derivePublicKey(path)
    IN  IF k.err # "nil" THEN [err |-> k.err, address |-> NoAddress]
        ELSE [err |-> "nil", address |-> [pubkeyOf |-> k.pub[2]]]

\* the addresses a caller can hold an accounts.Account for
Addresses == {deriveAddress(p).address : p \in HDPaths \ {BadPath}}

\* accounts.Account{Address, URL{Path: path.String()}}
Account(address, path) == [Address |-> address, URL |-> PathString(path)]

\* the zero value accounts.Account{}, content of a never written array slot
NoAccount == [Address |-> NoAddress, URL |-> <<>>]

(***************************************************************************)
(* sync.RWMutex                                                            *)
(***************************************************************************)
\* RLock returns only while no writer holds the mutex
CanRLock(l) == l.w = "none"

\* Lock returns only while neither a writer nor a reader holds the mutex
CanLock(l) == l.w = "none" /\ l.r = {}

RLock(l, t) == [l EXCEPT !.r = @ \cup {t}]
RUnlock(l, t) == [l EXCEPT !.r = @ \ {t}]
Lock(l, t) == [l EXCEPT !.w = t]
Unlock(l) == [l EXCEPT !.w = "none"]

(***************************************************************************)
(* Go slices and maps                                                      *)
(***************************************************************************)
\* the slice seen through a header of length n over array arr
SliceOf(arr, n) == SubSeq(arr, 1, n)

\* capacity of the array append allocates when len = cap
GrowCap(cap) == IF cap = 0 THEN 1 ELSE 2 * cap

\* append(s, x): in place while len < cap, else into a new, larger array
AppendArr(arr, n, x) ==
    IF n < Len(arr) THEN [arr EXCEPT ![n + 1] = x]
    ELSE [k \in 1..GrowCap(Len(arr)) |->
            IF k <= n THEN arr[k] ELSE IF k = n + 1 THEN x ELSE NoAccount]

\* append(s[:i], s[i+1:]...) on array arr with header length L (i is 0-based):
\* the elements after slot i move one slot down, the slots behind keep their content
RemoveArr(arr, i, L) ==
    [k \in 1..Len(arr) |-> IF k >= i + 1 /\ k <= L - 1 THEN arr[k + 1] ELSE arr[k]]

\* m[k] = v
MapSet(m, k, v) == [x \in DOMAIN m \cup {k} |-> IF x = k THEN v ELSE m[x]]

\* delete(m, k)
MapDelete(m, k) == [x \in DOMAIN m \ {k} |-> m[x]]

\* a lookup that takes every key for present
MapGetUnchecked(m, k) ==
    [ok |-> TRUE, v |-> IF k \in DOMAIN m THEN m[k] ELSE <<>>]

\* v, ok := m[k]: the zero value (the empty path) for a key not in the map
MapGet(m, k) ==
    IF k \in DOMAIN m THEN [ok |-> TRUE, v |-> m[k]] ELSE [ok |-> FALSE, v |-> <<>>]

(***************************************************************************)
(* Thread state                                                            *)
(***************************************************************************)
\* the registry as a call found it when it took the lock (history, for the claims)
NoPre == [list |-> <<>>, paths |-> <<>>]

\* what a call returns: the error ("nil" for none) and the value
NoRet == [err |-> "none", val |-> <<>>]
Ret(err, val) == [err |-> err, val |-> val]

Idle == [pc |-> "idle", path |-> <<>>, pin |-> FALSE, acct |-> NoAddress,
         i |-> 0, n |-> 0, L |-> 0, ret |-> NoRet, pre |-> NoPre,
         solo |-> FALSE, pass |-> <<>>]

\* the passphrase arguments of the passphrase-qualified signers
Passphrases == {"", "secret"}

\* a run of bytes (the kinds are listed with the SimpleWallet's bytes below)
Chunk(kind, src, lo, hi) == [kind |-> kind, src |-> src, lo |-> lo, hi |-> hi]

\* the seed argument of NewFromSeed: 64 bytes of caller input
HDSeedInput == <<Chunk("in", "seed", 1, 64)>>

\* A call begins on thread t with locals rec.  solo (history, for the claims)
\* records that no other call overlaps it: every other thread is idle now, and
\* a call that begins later clears the flag.
StartCall(t, rec) ==
    [v \in Threads |->
        IF v = t THEN [rec EXCEPT !.solo = \A u \in Threads \ {t} : th[u].pc = "idle"]
        ELSE [th[v] EXCEPT !.solo = FALSE]]

\* newWallet: the caller's seed slice, no account, no path, the lock free
InitHD ==
    /\ hdArr = <<>>
    /\ hdLen = 0
    /\ hdPaths = <<>>
    /\ stateLock = [w |-> "none", r |-> {}]
    /\ th = [t \in Threads |-> Idle]
    /\ calls = 0
    /\ hdSeed = HDSeedInput

hdList == SliceOf(hdArr, hdLen)


\* a Derive that pins whatever the caller asked for
PinAlways(pin) == TRUE

(***************************************************************************)
(* Wallet.Derive(path, pin), src/hdwallet.go:315-347                       *)
(***************************************************************************)
\* the else branch of "if !pin": the account is to be stored
PinRequested(pin) == pin

\* the call begins: stateLock.RLock()
HDDeriveCall(t, path, pin) ==
    /\ th[t].pc = "idle"
    /\ calls < MaxCalls
    /\ CanRLock(stateLock)
    /\ stateLock' = RLock(stateLock, t)
    /\ th' = StartCall(t, [Idle EXCEPT !.pc = "d_addr", !.path = path, !.pin = pin])
    /\ calls' = calls + 1
    /\ UNCHANGED <<hdArr, hdLen, hdPaths>>
    /\ UNCHANGED hdSeed
    /\ UNCHANGED <<swVars, call>>

\* address, err := w.deriveAddress(path); RUnlock; the two early returns
HDDeriveAddr(t) ==
    /\ th[t].pc = "d_addr"
    /\ stateLock' = RUnlock(stateLock, t)
    /\ LET d == deriveAddress(th[t].path)
       IN  th' = [th EXCEPT ![t] =
                IF d.err # "nil"
                THEN [@ EXCEPT !.pc = "d_ret", !.ret = Ret(d.err, NoAccount)]
                ELSE IF ~PinRequested(th[t].pin)
                THEN [@ EXCEPT !.pc = "d_ret", !.acct = d.address,
                               !.ret = Ret("nil", Account(d.address, th[t].path))]
                ELSE [@ EXCEPT !.pc = "d_lock", !.acct = d.address]]
    /\ UNCHANGED <<hdArr, hdLen, hdPaths, calls>>
    /\ UNCHANGED hdSeed
    /\ UNCHANGED <<swVars, call>>

\* return of a call that holds no lock
HDReturn(t) ==
    /\ th[t].pc \in {"d_ret", "sh_ret", "cl_ret"}
    /\ th' = [th EXCEPT ![t] = Idle]
    /\ UNCHANGED <<hdArr, hdLen, hdPaths, stateLock, calls>>
    /\ UNCHANGED hdSeed
    /\ UNCHANGED <<swVars, call>>

\* w.stateLock.Lock()
HDDeriveLock(t) ==
    /\ th[t].pc = "d_lock"
    /\ CanLock(stateLock)
    /\ stateLock' = Lock(stateLock, t)
    /\ th' = [th EXCEPT ![t].pc = "d_check"]
    /\ UNCHANGED <<hdArr, hdLen, hdPaths, calls>>
    /\ UNCHANGED hdSeed
    /\ UNCHANGED <<swVars, call>>

\* _, ok := w.paths[address]
HDDeriveCheck(t) ==
    /\ th[t].pc = "d_check"
    /\ th' = [th EXCEPT ![t] =
                IF th[t].acct \in DOMAIN hdPaths
                THEN [@ EXCEPT !.pc = "d_unlock",
                               !.ret = Ret("nil", Account(th[t].acct, th[t].path))]
                ELSE [@ EXCEPT !.pc = "d_append"]]
    /\ UNCHANGED <<hdArr, hdLen, hdPaths, stateLock, calls>>
    /\ UNCHANGED hdSeed
    /\ UNCHANGED <<swVars, call>>

\* w.accounts = append(w.accounts, account)
HDDeriveAppend(t) ==
    /\ th[t].pc = "d_append"
    /\ hdArr' = AppendArr(hdArr, hdLen, Account(th[t].acct, th[t].path))
    /\ hdLen' = hdLen + 1
    /\ th' = [th EXCEPT ![t].pc = "d_setpath"]
    /\ UNCHANGED <<hdPaths, stateLock, calls>>
    /\ UNCHANGED hdSeed
    /\ UNCHANGED <<swVars, call>>

\* w.paths[address] = path
HDDeriveSetPath(t) ==
    /\ th[t].pc = "d_setpath"
    /\ hdPaths' = MapSet(hdPaths, th[t].acct, th[t].path)
    /\ th' = [th EXCEPT ![t].pc = "d_unlock",
                        ![t].ret = Ret("nil", Account(th[t].acct, th[t].path))]
    /\ UNCHANGED <<hdArr, hdLen, stateLock, calls>>
    /\ UNCHANGED hdSeed
    /\ UNCHANGED <<swVars, call>>

\* the deferred w.stateLock.Unlock(), and the return
HDDeriveUnlock(t) ==
    /\ th[t].pc = "d_unlock"
    /\ stateLock' = Unlock(stateLock)
    /\ th' = [th EXCEPT ![t] = Idle]
    /\ UNCHANGED <<hdArr, hdLen, hdPaths, calls>>
    /\ UNCHANGED hdSeed
    /\ UNCHANGED <<swVars, call>>

(***************************************************************************)
(* Wallet.Unpin(account), src/hdwallet.go:292-308                          *)
(***************************************************************************)
\* the lock Unpin takes is stateLock.RLock()
UnpinCanLock(l) == CanRLock(l)
UnpinLock(l, t) == RLock(l, t)
UnpinUnlock(l, t) == RUnlock(l, t)

HDUnpinCall(t, a) ==
    /\ th[t].pc = "idle"
    /\ calls < MaxCalls
    /\ UnpinCanLock(stateLock)
    /\ stateLock' = UnpinLock(stateLock, t)
    /\ th' = StartCall(t, [Idle EXCEPT !.pc = "u_range", !.acct = a,
                                  !.pre = [list |-> hdList, paths |-> hdPaths]])
    /\ calls' = calls + 1
    /\ UNCHANGED <<hdArr, hdLen, hdPaths>>
    /\ UNCHANGED hdSeed
    /\ UNCHANGED <<swVars, call>>

\* for i, acct := range w.accounts: the slice header is read once
HDUnpinRange(t) ==
    /\ th[t].pc = "u_range"
    /\ th' = [th EXCEPT ![t].pc = "u_scan", ![t].n = hdLen, ![t].i = 0]
    /\ UNCHANGED <<hdArr, hdLen, hdPaths, stateLock, calls>>
    /\ UNCHANGED hdSeed
    /\ UNCHANGED <<swVars, call>>

\* one iteration: read element i, compare the addresses
HDUnpinScan(t) ==
    /\ th[t].pc = "u_scan"
    /\ th' = [th EXCEPT ![t] =
                IF th[t].i >= th[t].n
                THEN [@ EXCEPT !.pc = "u_unlock",
                               !.ret = Ret("Account not found.", NoAccount)]
                ELSE IF hdArr[th[t].i + 1].Address = th[t].acct
                THEN [@ EXCEPT !.pc = "u_slice"]
                ELSE [@ EXCEPT !.i = @ + 1]]
    /\ UNCHANGED <<hdArr, hdLen, hdPaths, stateLock, calls>>
    /\ UNCHANGED hdSeed
    /\ UNCHANGED <<swVars, call>>

\* w.accounts[:i], w.accounts[i+1:]: the header is read again; i+1 beyond its
\* length is a run-time panic (slice bounds out of range)
HDUnpinSlice(t) ==
    /\ th[t].pc = "u_slice"
    /\ th' = [th EXCEPT ![t] =
                IF th[t].i + 1 > hdLen
                THEN [@ EXCEPT !.pc = "u_unlock", !.ret = Ret("panic", NoAccount)]
                ELSE [@ EXCEPT !.pc = "u_write", !.L = hdLen]]
    /\ UNCHANGED <<hdArr, hdLen, hdPaths, stateLock, calls>>
    /\ UNCHANGED hdSeed
    /\ UNCHANGED <<swVars, call>>

\* append moves the tail down and the new header is stored in w.accounts
HDUnpinWrite(t) ==
    /\ th[t].pc = "u_write"
    /\ hdArr' = RemoveArr(hdArr, th[t].i, th[t].L)
    /\ hdLen' = th[t].L - 1
    /\ th' = [th EXCEPT ![t].pc = "u_delete"]
    /\ UNCHANGED <<hdPaths, stateLock, calls>>
    /\ UNCHANGED hdSeed
    /\ UNCHANGED <<swVars, call>>

\* delete(w.paths, account.Address); return nil
HDUnpinDelete(t) ==
    /\ th[t].pc = "u_delete"
    /\ hdPaths' = MapDelete(hdPaths, th[t].acct)
    /\ th' = [th EXCEPT ![t].pc = "u_unlock", ![t].ret = Ret("nil", NoAccount)]
    /\ UNCHANGED <<hdArr, hdLen, stateLock, calls>>
    /\ UNCHANGED hdSeed
    /\ UNCHANGED <<swVars, call>>

\* the deferred unlock, and the return
HDUnpinUnlock(t) ==
    /\ th[t].pc = "u_unlock"
    /\ stateLock' = UnpinUnlock(stateLock, t)
    /\ th' = [th EXCEPT ![t] = Idle]
    /\ UNCHANGED <<hdArr, hdLen, hdPaths, calls>>
    /\ UNCHANGED hdSeed
    /\ UNCHANGED <<swVars, call>>


(***************************************************************************)
(* Wallet.Accounts, Wallet.Contains, src/hdwallet.go:267-287               *)
(***************************************************************************)
HDAccountsCall(t) ==
    /\ th[t].pc = "idle"
    /\ calls < MaxCalls
    /\ CanRLock(stateLock)
    /\ stateLock' = RLock(stateLock, t)
    /\ th' = StartCall(t, [Idle EXCEPT !.pc = "a_copy"])
    /\ calls' = calls + 1
    /\ UNCHANGED <<hdArr, hdLen, hdPaths>>
    /\ UNCHANGED hdSeed
    /\ UNCHANGED <<swVars, call>>

\* cpy := make([]accounts.Account, len(w.accounts)); copy(cpy, w.accounts)
HDAccountsCopy(t) ==
    /\ th[t].pc = "a_copy"
    /\ th' = [th EXCEPT ![t].pc = "r_unlock", ![t].ret = Ret("nil", hdList)]
    /\ UNCHANGED <<hdArr, hdLen, hdPaths, stateLock, calls>>
    /\ UNCHANGED hdSeed
    /\ UNCHANGED <<swVars, call>>

HDContainsCall(t, a) ==
    /\ th[t].pc = "idle"
    /\ calls < MaxCalls
    /\ CanRLock(stateLock)
    /\ stateLock' = RLock(stateLock, t)
    /\ th' = StartCall(t, [Idle EXCEPT !.pc = "c_lookup", !.acct = a])
    /\ calls' = calls + 1
    /\ UNCHANGED <<hdArr, hdLen, hdPaths>>
    /\ UNCHANGED hdSeed
    /\ UNCHANGED <<swVars, call>>

\* _, exists := w.paths[account.Address]
HDContainsLookup(t) ==
    /\ th[t].pc = "c_lookup"
    /\ th' = [th EXCEPT ![t].pc = "r_unlock",
                        ![t].ret = Ret("nil", th[t].acct \in DOMAIN hdPaths)]
    /\ UNCHANGED <<hdArr, hdLen, hdPaths, stateLock, calls>>
    /\ UNCHANGED hdSeed
    /\ UNCHANGED <<swVars, call>>

\* the deferred w.stateLock.RUnlock() of Accounts, Contains and SignTx
HDReadUnlock(t) ==
    /\ th[t].pc \in {"r_unlock", "x_unlock"}
    /\ stateLock' = RUnlock(stateLock, t)
    /\ th' = [th EXCEPT ![t] = Idle]
    /\ UNCHANGED <<hdArr, hdLen, hdPaths, calls>>
    /\ UNCHANGED hdSeed
    /\ UNCHANGED <<swVars, call>>

(***************************************************************************)
(* Wallet.SignHash, Wallet.SignTx, src/hdwallet.go:365-401                 *)
(***************************************************************************)
\* crypto.Sign(hash, privateKey)
Sign(hash, key) == [signedBy |-> key, over |-> hash]

\* the address recovered from a signature: that of the signing key
Sender(sig) == [pubkeyOf |-> sig.signedBy[2]]

\* SignHash takes no lock
HDSignHashCall(t, a) ==
    /\ th[t].pc = "idle"
    /\ calls < MaxCalls
    /\ th' = StartCall(t, [Idle EXCEPT !.pc = "sh_lookup", !.acct = a])
    /\ calls' = calls + 1
    /\ UNCHANGED <<hdArr, hdLen, hdPaths, stateLock>>
    /\ UNCHANGED hdSeed
    /\ UNCHANGED <<swVars, call>>

\* SignHashWithPassphrase: return w.SignHash(account, hash)
HDSignHashWithPassphraseCall(t, a, passphrase) ==
    /\ th[t].pc = "idle"
    /\ calls < MaxCalls
    /\ th' = StartCall(t, [Idle EXCEPT !.pc = "sh_lookup", !.acct = a,
                                       !.pass = <<passphrase>>])
    /\ calls' = calls + 1
    /\ UNCHANGED <<hdArr, hdLen, hdPaths, stateLock>>
    /\ UNCHANGED hdSeed
    /\ UNCHANGED <<swVars, call>>

\* path, ok := w.paths[account.Address]; derivePrivateKey; crypto.Sign
HDSignHashLookup(t) ==
    /\ th[t].pc = "sh_lookup"
    /\ th' = [th EXCEPT ![t] =
                IF ~MapGet(hdPaths, th[t].acct).ok
                THEN [@ EXCEPT !.pc = "sh_ret", !.ret = Ret("ErrUnknownAccount", <<>>)]
                ELSE LET k == derivePrivateKey(MapGet(hdPaths, th[t].acct).v)
                     IN  IF k.err # "nil"
                         THEN [@ EXCEPT !.pc = "sh_ret", !.ret = Ret(k.err, <<>>)]
                         ELSE [@ EXCEPT !.pc = "sh_ret",
                                        !.ret = Ret("nil", Sign("hash", k.key))]]
    /\ UNCHANGED <<hdArr, hdLen, hdPaths, stateLock, calls>>
    /\ UNCHANGED hdSeed
    /\ UNCHANGED <<swVars, call>>

HDSignTxCall(t, a) ==
    /\ th[t].pc = "idle"
    /\ calls < MaxCalls
    /\ CanRLock(stateLock)
    /\ stateLock' = RLock(stateLock, t)
    /\ th' = StartCall(t, [Idle EXCEPT !.pc = "x_sign", !.acct = a])
    /\ calls' = calls + 1
    /\ UNCHANGED <<hdArr, hdLen, hdPaths>>
    /\ UNCHANGED hdSeed
    /\ UNCHANGED <<swVars, call>>

\* SignTxWithPassphrase: return w.SignTx(account, tx, chainID)
HDSignTxWithPassphraseCall(t, a, passphrase) ==
    /\ th[t].pc = "idle"
    /\ calls < MaxCalls
    /\ CanRLock(stateLock)
    /\ stateLock' = RLock(stateLock, t)
    /\ th' = StartCall(t, [Idle EXCEPT !.pc = "x_sign", !.acct = a,
                                       !.pass = <<passphrase>>])
    /\ calls' = calls + 1
    /\ UNCHANGED <<hdArr, hdLen, hdPaths>>
    /\ UNCHANGED hdSeed
    /\ UNCHANGED <<swVars, call>>

\* the lookup, types.SignTx and the check of the recovered sender
HDSignTxSign(t) ==
    /\ th[t].pc = "x_sign"
    /\ th' = [th EXCEPT ![t] =
                IF ~MapGet(hdPaths, th[t].acct).ok
                THEN [@ EXCEPT !.pc = "x_unlock", !.ret = Ret("ErrUnknownAccount", <<>>)]
                ELSE LET k == derivePrivateKey(MapGet(hdPaths, th[t].acct).v)
                     IN  IF k.err # "nil"
                         THEN [@ EXCEPT !.pc = "x_unlock", !.ret = Ret(k.err, <<>>)]
                         ELSE IF Sender(Sign("tx", k.key)) # th[t].acct
                         THEN [@ EXCEPT !.pc = "x_unlock", !.ret = Ret("Wrong sender", <<>>)]
                         ELSE [@ EXCEPT !.pc = "x_unlock",
                                        !.ret = Ret("nil", Sign("tx", k.key))]]
    /\ UNCHANGED <<hdArr, hdLen, hdPaths, stateLock, calls>>
    /\ UNCHANGED hdSeed
    /\ UNCHANGED <<swVars, call>>

(***************************************************************************)
(* The hdwallet Wallet used by concurrent callers                          *)
(***************************************************************************)
(***************************************************************************)
(* Wallet.Close(), src/hdwallet.go:258-260: the body is "return nil"        *)
(***************************************************************************)
HDCloseCall(t) ==
    /\ th[t].pc = "idle"
    /\ calls < MaxCalls
    /\ th' = StartCall(t, [Idle EXCEPT !.pc = "cl_ret", !.ret = Ret("nil", NoAccount)])
    /\ calls' = calls + 1
    /\ UNCHANGED <<hdArr, hdLen, hdPaths, stateLock, hdSeed>>
    /\ UNCHANGED <<swVars, call>>

(***************************************************************************)
(* The caller of Derive(path, true) keeps its path slice, and line 343,     *)
(* w.paths[address] = path, stores that slice, not a copy of it: the map    *)
(* entry and the caller's slice share their backing array.  Here the caller *)
(* of thread t, while no call is running, moves the slice it passed for     *)
(* the first account, address a, on to the next index for its next call:    *)
(* path[4]++.                                                               *)
(***************************************************************************)
HDCallerWritesPath(t, a) ==
    /\ \A u \in Threads : th[u].pc = "idle"
    /\ calls < MaxCalls
    /\ a \in DOMAIN hdPaths
    /\ hdPaths[a] = BasePath(0)
    /\ hdPaths[a][5].n < MaxIndex
    /\ hdPaths' = [hdPaths EXCEPT ![a][5] = Normal(@.n + 1)]
    /\ calls' = calls + 1
    /\ UNCHANGED <<hdArr, hdLen, stateLock, th, hdSeed>>
    /\ UNCHANGED <<swVars, call>>

NextHD ==
    \E t \in Threads :
        \/ \E p \in HDPaths, pin \in BOOLEAN : HDDeriveCall(t, p, pin)
        \/ HDDeriveAddr(t)
        \/ HDReturn(t)
        \/ HDDeriveLock(t)
        \/ HDDeriveCheck(t)
        \/ HDDeriveAppend(t)
        \/ HDDeriveSetPath(t)
        \/ HDDeriveUnlock(t)
        \/ \E a \in Addresses : HDUnpinCall(t, a)
        \/ HDUnpinRange(t)
        \/ HDUnpinScan(t)
        \/ HDUnpinSlice(t)
        \/ HDUnpinWrite(t)
        \/ HDUnpinDelete(t)
        \/ HDUnpinUnlock(t)
        \/ HDAccountsCall(t)
        \/ HDAccountsCopy(t)
        \/ \E a \in Addresses : HDContainsCall(t, a)
        \/ HDContainsLookup(t)
        \/ HDReadUnlock(t)
        \/ \E a \in Addresses : HDSignHashCall(t, a)
        \/ HDSignHashLookup(t)
        \/ \E a \in Addresses : HDSignTxCall(t, a)
        \/ HDSignTxSign(t)
        \/ \E a \in Addresses, p \in Passphrases : HDSignHashWithPassphraseCall(t, a, p)
        \/ \E a \in Addresses, p \in Passphrases : HDSignTxWithPassphraseCall(t, a, p)
        \/ HDCloseCall(t)
        \/ \E a \in Addresses : HDCallerWritesPath(t, a)

\* no SimpleWallet exists
NoSW ==
    /\ wl = <<>>
    /\ sth = <<>>
    /\ hist = <<>>
    /\ swCalls = 0

\* the hdwallet Wallet alone
InitHDOnly == InitHD /\ NoSW /\ NoPkg

SpecHD == InitHDOnly /\ [][NextHD]_vars


(***************************************************************************)
(* wallet.SimpleWallet: bytes, strings and hashes.                         *)
(*                                                                         *)
(* A []byte is a sequence of chunks.  A chunk is a run of bytes            *)
(*   [kind, src, lo, hi]:                                                  *)
(*     "lit"    the bytes src[lo..hi], src a sequence of byte values;      *)
(*     "str"    the bytes of tokens lo..hi of the string src;              *)
(*     "in"     bytes lo..hi of the caller's input buffer src;             *)
(*     "sha256" bytes lo..hi of the SHA-256 digest of the bytes src;       *)
(*     "P256"   bytes lo..hi of X||Y of the P-256 point src * G.           *)
(* SHA-256 and the scalar multiplication are taken to be injective.        *)
(* A string is a sequence of tokens: a word, or one white-space character. *)
(***************************************************************************)
\* SeedLength: the required length of a wallet seed
SeedLength == 64

Lit(bytes) == Chunk("lit", bytes, 1, Len(bytes))

RECURSIVE ByteLen(_)
\* len(data)
ByteLen(data) ==
    IF data = <<>> THEN 0
    ELSE (Head(data).hi - Head(data).lo + 1) + ByteLen(Tail(data))

\* the slice expression data[from:] where the cut falls inside the first chunk
SliceFrom(data, from) ==
    <<[data[1] EXCEPT !.lo = @ + from]>> \o Tail(data)

\* []byte(s)
StringBytes(s) == <<Chunk("str", s, 1, Len(s))>>

\* sha256.Sum256(data), hash.Sum(nil): the 32 bytes of the digest
Sum256(data) == <<Chunk("sha256", data, 1, 32)>>

\* Curve.ScalarBaseMult(k) and the X||Y part of elliptic.Marshal
ScalarBaseMult(k) == <<Chunk("P256", k, 1, 64)>>

\* elliptic.Marshal(curve, X, Y): 0x04 || X || Y
Marshal(pub) == <<Lit(<<4>>)>> \o pub

\* unicode.IsSpace, for the white space the model's strings hold
WhiteSpace == {" ", "\t", "\n"}

\* strings.Fields(s): the words between runs of white space
Fields(s) == SelectSeq(s, LAMBDA tok : tok \notin WhiteSpace)

\* strings.Join(words, " ")
Join(words) ==
    [i \in 1..(IF Len(words) = 0 THEN 0 ELSE 2 * Len(words) - 1) |->
        IF i % 2 = 1 THEN words[(i + 1) \div 2] ELSE " "]

\* BIP39WordList: the dictionary of 2048 distinct words, BIP39WordList[i]
\* being entry i - 1 of the Go slice.  The model spells out the entries the
\* tests use ("abandon" 0, "about" 3, "zoo" 2047) and names the others by
\* their place.
BIP39WordList ==
    [i \in 1..2048 |->
        IF i = 1 THEN "abandon"
        ELSE IF i = 4 THEN "about"
        ELSE IF i = 2048 THEN "zoo"
        ELSE "word" \o ToString(i - 1)]

\* bip39WordMap, filled by init(): its keys
bip39WordMap == {BIP39WordList[i] : i \in DOMAIN BIP39WordList}

\* validateMnemonic accepting any number of words
validateWordsOnly(mnemonic) ==
    LET words == Fields(mnemonic)
    IN  \A i \in 1..Len(words) : words[i] \in bip39WordMap

\* validateMnemonic
validateMnemonic(mnemonic) ==
    LET words == Fields(mnemonic)
    IN  /\ Len(words) \in {12, 15, 18, 21, 24}
        /\ \A i \in 1..Len(words) : words[i] \in bip39WordMap

\* generateSeedFromMnemonic
generateSeedFromMnemonic(mnemonic, passphrase) ==
    LET combined == mnemonic \o passphrase
        hash == Sum256(StringBytes(combined))
        hash2 == Sum256(hash)
    IN  hash \o hash2

\* DefaultConfig
DefaultConfig == [Passphrase |-> <<>>]
NilConfig == [nil |-> TRUE]

\* newWallet: rnd is what ecdsa.GenerateKey reads from rand.Reader
swNewWallet(mnemonic, seed, config, rnd) ==
    [err |-> "nil",
     wallet |-> [mnemonic |-> mnemonic,
                 seed |-> [nil |-> FALSE, buf |-> seed],
                 masterKey |-> rnd,
                 accounts |-> <<>>,
                 paths |-> <<>>,
                 isLocked |-> FALSE,
                 mu |-> [w |-> "none", r |-> {}]]]

NoWallet == [nil |-> TRUE]

\* NewFromMnemonic
NewFromMnemonic(mnemonic, config, rnd) ==
    LET cfg == IF config = NilConfig THEN DefaultConfig ELSE config
        seed == generateSeedFromMnemonic(mnemonic, cfg.Passphrase)
    IN  IF ~validateMnemonic(mnemonic)
        THEN [err |-> "ErrInvalidMnemonic", wallet |-> NoWallet]
        ELSE IF ByteLen(seed) # SeedLength
        THEN [err |-> "ErrInvalidSeed", wallet |-> NoWallet]
        ELSE swNewWallet(mnemonic, seed, cfg, rnd)

\* NewFromSeed without the check of the seed's length
NewFromSeedAnyLength(seed, config, rnd) ==
    LET cfg == IF config = NilConfig THEN DefaultConfig ELSE config
    IN  swNewWallet(<<>>, seed, cfg, rnd)

\* NewFromSeed
NewFromSeed(seed, config, rnd) ==
    LET cfg == IF config = NilConfig THEN DefaultConfig ELSE config
    IN  IF ByteLen(seed) # SeedLength
        THEN [err |-> "ErrInvalidSeed", wallet |-> NoWallet]
        ELSE swNewWallet(<<>>, seed, cfg, rnd)

\* the four bytes pathBytes[0..3] of a path component, big endian
PathBytes(component) ==
    <<Lit(<<(IF component.h THEN 128 ELSE 0) + (component.n \div 16777216),
            (component.n \div 65536) % 256,
            (component.n \div 256) % 256,
            component.n % 256>>)>>

RECURSIVE AllPathBytes(_)
AllPathBytes(path) ==
    IF path = <<>> THEN <<>> ELSE PathBytes(Head(path)) \o AllPathBytes(Tail(path))

\* big.Int: the scalar as its magnitude bytes; the empty magnitude is 0
SetBytes(buf) == [abs |-> buf]
SetInt64Zero(d) == [abs |-> <<>>]

\* the key derivePrivateKey makes of the digest keyBytes
newPrivateKey(keyBytes) ==
    [nil |-> FALSE, D |-> SetBytes(keyBytes), PublicKey |-> ScalarBaseMult(keyBytes)]

\* SimpleWallet.derivePrivateKey: w.seed is nil after cleanup, and
\* hash.Write(nil) writes nothing
swDerivePrivateKey(w, path) ==
    LET written == (IF w.seed.nil THEN <<>> ELSE w.seed.buf) \o AllPathBytes(path)
        keyBytes == Sum256(written)
    IN  newPrivateKey(keyBytes)

\* SimpleWallet.pubkeyToAddress: the last 20 bytes of the digest
pubkeyToAddress(pub) == SliceFrom(Sum256(Tail(Marshal(pub))), 12)

\* formatDerivationPath
formatDerivationPath(path) == IF Len(path) = 0 THEN <<"m">> ELSE PathString(path)

\* secureClear
secureClear(data) ==
    IF data = <<>> THEN <<>> ELSE <<Lit([i \in 1..ByteLen(data) |-> 0])>>

\* a clearing that leaves the key as it is
KeepKey(key) == key

\* secureClearPrivateKey
secureClearPrivateKey(key) ==
    IF ~key.nil THEN [key EXCEPT !.D = SetInt64Zero(@)] ELSE key

\* every byte of data is zero
AllZero(data) ==
    \A i \in 1..Len(data) :
        data[i].kind = "lit" /\ \A k \in data[i].lo..data[i].hi : data[i].src[k] = 0

\* ---- keys as hexadecimal strings; such a string is a sequence of digits ----
hextable == <<"0", "1", "2", "3", "4", "5", "6", "7",
              "8", "9", "a", "b", "c", "d", "e", "f">>

\* hex.EncodeToString(src), src a sequence of byte values
EncodeToString(src) ==
    [i \in 1..(2 * Len(src)) |->
        IF i % 2 = 1 THEN hextable[(src[(i + 1) \div 2] \div 16) + 1]
        ELSE hextable[(src[i \div 2] % 16) + 1]]

\* big.Int.Bytes(): the big-endian bytes without leading zero bytes
RECURSIVE BigBytes(_)
BigBytes(bytes) ==
    IF bytes # <<>> /\ bytes[1] = 0 THEN BigBytes(Tail(bytes)) ELSE bytes

\* D.Bytes(): the magnitude without leading zero bytes.  The bytes of a
\* digest are not known to the model: it is kept whole.
bigIntBytes(d) ==
    IF d.abs # <<>> /\ d.abs[1].kind = "lit"
    THEN LET c == d.abs[1]
             b == BigBytes(SubSeq(c.src, c.lo, c.hi))
         IN  (IF b = <<>> THEN <<>> ELSE <<Lit(b)>>) \o Tail(d.abs)
    ELSE d.abs

\* hex.EncodeToString of a []byte: digits for bytes the model knows, and
\* [hexOf |-> chunk] for the digits of the others
RECURSIVE EncodeData(_)
EncodeData(data) ==
    IF data = <<>> THEN <<>>
    ELSE LET c == Head(data)
         IN  (IF c.kind = "lit" THEN EncodeToString(SubSeq(c.src, c.lo, c.hi))
              ELSE <<[hexOf |-> c]>>) \o EncodeData(Tail(data))

\* SimpleWallet.GetPrivateKeyHex between RLock and RUnlock; "panic" is the
\* nil pointer dereference of account.PrivateKey.D
GetPrivateKeyHex(w, address) ==
    LET found == MapGet(w.accounts, address)
    IN  IF ~found.ok THEN [err |-> "ErrAccountNotFound", hex |-> <<>>]
        ELSE IF w.isLocked THEN [err |-> "ErrWalletLocked", hex |-> <<>>]
        ELSE IF found.v.PrivateKey.nil THEN [err |-> "panic", hex |-> <<>>]
        ELSE [err |-> "nil", hex |-> EncodeData(bigIntBytes(found.v.PrivateKey.D))]

\* SimpleWallet.GetMnemonic between RLock and RUnlock
GetMnemonic(w) ==
    IF w.isLocked THEN [err |-> "ErrWalletLocked", mnemonic |-> <<>>]
    ELSE [err |-> "nil", mnemonic |-> w.mnemonic]

(***************************************************************************)
(* wallet.SimpleWallet: instances, callers and methods.                    *)
(***************************************************************************)
Wallets == {"w1", "w2"}

\* what rand.Reader may deliver to ecdsa.GenerateKey
RandomKeys == {"k1", "k2"}

\* testMnemonic12: "abandon" x 11 + "about"
TestMnemonic12 == Join([i \in 1..12 |-> IF i = 12 THEN "about" ELSE "abandon"])

\* testMnemonic12, "zoo" x 12, and a 3-word phrase
Mnemonics ==
    {TestMnemonic12,
     Join([i \in 1..12 |-> "zoo"]),
     Join([i \in 1..3 |-> "abandon"])}

\* the *WalletConfig arguments
Configs == {NilConfig, [Passphrase |-> <<>>], [Passphrase |-> <<"TREZOR">>]}

\* the seed arguments of NewFromSeed: 64 and 32 bytes of caller input
Seeds == {<<Chunk("in", "seed", 1, 64)>>, <<Chunk("in", "seed", 1, 32)>>}

\* config.Passphrase after the nil check of the constructors
PassphraseOf(config) ==
    IF config = NilConfig THEN DefaultConfig.Passphrase ELSE config.Passphrase

\* every constructor call, with what it returned
Constructions ==
    {[made |-> NewFromMnemonic(m, c, k), fromMnemonic |-> TRUE,
      mnemonic |-> m, passphrase |-> PassphraseOf(c)] :
        m \in Mnemonics, c \in Configs, k \in RandomKeys}
    \cup
    {[made |-> NewFromSeed(s, c, k), fromMnemonic |-> FALSE,
      mnemonic |-> <<>>, passphrase |-> <<>>] :
        s \in Seeds, c \in Configs, k \in RandomKeys}

\* Account{Address, Path, Index, PrivateKey, PublicKey}
SWAccount(address, path, index, key) ==
    [Address |-> address, Path |-> formatDerivationPath(path), Index |-> index,
     PrivateKey |-> key, PublicKey |-> key.PublicKey]

NoKey == [nil |-> TRUE, D |-> [abs |-> <<>>], PublicKey |-> <<>>]
NoSWAccount ==
    [Address |-> <<>>, Path |-> <<>>, Index |-> 0, PrivateKey |-> NoKey,
     PublicKey |-> <<>>]

SIdle ==
    [pc |-> "idle", w |-> "none", index |-> 0, acc |-> NoSWAccount,
     tbl |-> <<>>, list |-> {}, err |-> "none", val |-> <<>>]

\* the wallets are those the constructors returned without error; w1 is the
\* wallet of the tests, NewFromMnemonic(testMnemonic12, nil)
InitSW ==
    \E f \in [Wallets -> {c \in Constructions : c.made.err = "nil"}] :
        /\ f["w1"].made = NewFromMnemonic(TestMnemonic12, NilConfig, "k1")
        /\ wl = [w \in Wallets |-> f[w].made.wallet]
        /\ hist = [w \in Wallets |->
                     [fromMnemonic |-> f[w].fromMnemonic,
                      mnemonic |-> f[w].mnemonic,
                      passphrase |-> f[w].passphrase,
                      times |-> [i \in 0..MaxIndex |-> 0],
                      results |-> {},
                      closes |-> 0,
                      held |-> {},
                      replaced |-> {}]]
        /\ sth = [t \in Threads |-> SIdle]
        /\ swCalls = 0

SWStart(t) ==
    /\ sth[t].pc = "idle"
    /\ swCalls < MaxSWCalls
    /\ swCalls' = swCalls + 1

\* a lock that never makes its caller wait
LockFree(l) == TRUE

\* ---- Derive(index) ----
\* w.mu.Lock() returns
DeriveCanLock(l) == CanLock(l)

SWDeriveCall(t, w, index) ==
    /\ SWStart(t)
    /\ DeriveCanLock(wl[w].mu)
    /\ wl' = [wl EXCEPT ![w].mu = Lock(@, t)]
    /\ sth' = [sth EXCEPT ![t] = [SIdle EXCEPT !.pc = "s_derive", !.w = w,
                                               !.index = index]]
    /\ UNCHANGED hist
    /\ UNCHANGED <<hdVars, call>>

\* the isLocked check, the derivation, and the read of the accounts map
SWDeriveKey(t) ==
    /\ sth[t].pc = "s_derive"
    /\ LET w == wl[sth[t].w]
           path == BasePath(sth[t].index)
           key == swDerivePrivateKey(w, path)
           address == pubkeyToAddress(key.PublicKey)
       IN  sth' = [sth EXCEPT ![t] =
                IF w.isLocked
                THEN [@ EXCEPT !.pc = "s_unlock", !.err = "ErrWalletLocked"]
                ELSE [@ EXCEPT !.pc = "s_store",
                               !.acc = SWAccount(address, path, sth[t].index, key),
                               !.tbl = w.accounts]]
    /\ UNCHANGED <<wl, hist, swCalls>>
    /\ UNCHANGED <<hdVars, call>>

\* The Account objects the map no longer points to once the entry at address
\* is overwritten: the callers they were returned to still hold them
\* (history).
Replaced(tbl, address) ==
    IF address \in DOMAIN tbl THEN {tbl[address]} ELSE {}

\* w.accounts[address] = account; w.paths[address] = path
SWDeriveStore(t) ==
    /\ sth[t].pc = "s_store"
    /\ LET acc == sth[t].acc
       IN  /\ wl' = [wl EXCEPT
                    ![sth[t].w].accounts = MapSet(sth[t].tbl, acc.Address, acc),
                    ![sth[t].w].paths = MapSet(@, acc.Address, BasePath(acc.Index))]
           /\ hist' = [hist EXCEPT ![sth[t].w].replaced =
                                      @ \cup Replaced(sth[t].tbl, acc.Address)]
    /\ sth' = [sth EXCEPT ![t].pc = "s_unlock", ![t].err = "nil", ![t].tbl = <<>>]
    /\ UNCHANGED swCalls
    /\ UNCHANGED <<hdVars, call>>

\* the deferred w.mu.Unlock() and the return
SWDeriveReturn(t) ==
    /\ sth[t].pc = "s_unlock"
    /\ wl' = [wl EXCEPT ![sth[t].w].mu = Unlock(@)]
    /\ hist' = IF sth[t].err # "nil" THEN hist
               ELSE LET acc == sth[t].acc
                    IN  [hist EXCEPT
                           ![sth[t].w].times[acc.Index] = @ + 1,
                           ![sth[t].w].results = @ \cup
                               {[Index |-> acc.Index, Address |-> acc.Address,
                                 D |-> acc.PrivateKey.D,
                                 PublicKey |-> acc.PublicKey]}]
    /\ sth' = [sth EXCEPT ![t] = SIdle]
    /\ UNCHANGED swCalls
    /\ UNCHANGED <<hdVars, call>>

\* ---- Close() ----
SWCloseCall(t, w) ==
    /\ SWStart(t)
    /\ CanLock(wl[w].mu)
    /\ wl' = [wl EXCEPT ![w].mu = Lock(@, t)]
    /\ sth' = [sth EXCEPT ![t] = [SIdle EXCEPT !.pc = "k_clean", !.w = w]]
    /\ UNCHANGED hist
    /\ UNCHANGED <<hdVars, call>>

\* a cleanup that also drops the accounts an earlier cleanup has cleared
cleanupAndPrune(w) ==
    [w EXCEPT
       !.seed = IF @.nil THEN @ ELSE [nil |-> TRUE, buf |-> secureClear(@.buf)],
       !.accounts = [a \in {x \in DOMAIN @ : ~@[x].PrivateKey.nil} |->
                       [@[a] EXCEPT !.PrivateKey =
                          [secureClearPrivateKey(@) EXCEPT !.nil = TRUE]]]]

\* cleanup: the body between Lock and Unlock
cleanup(w) ==
    [w EXCEPT
       !.seed = IF @.nil THEN @ ELSE [nil |-> TRUE, buf |-> secureClear(@.buf)],
       !.accounts = [a \in DOMAIN @ |->
                       IF @[a].PrivateKey.nil THEN @[a]
                       ELSE [@[a] EXCEPT !.PrivateKey =
                               [secureClearPrivateKey(@) EXCEPT !.nil = TRUE]]]]

SWCleanup(t) ==
    /\ sth[t].pc = "k_clean"
    /\ wl' = [wl EXCEPT ![sth[t].w] = cleanup(@)]
    /\ sth' = [sth EXCEPT ![t].pc = "k_unlock", ![t].err = "nil"]
    /\ UNCHANGED <<hist, swCalls>>
    /\ UNCHANGED <<hdVars, call>>

SWCloseReturn(t) ==
    /\ sth[t].pc = "k_unlock"
    /\ wl' = [wl EXCEPT ![sth[t].w].mu = Unlock(@)]
    /\ hist' = [hist EXCEPT ![sth[t].w].closes = @ + 1]
    /\ sth' = [sth EXCEPT ![t] = SIdle]
    /\ UNCHANGED swCalls
    /\ UNCHANGED <<hdVars, call>>

\* ---- Accounts() ----
SWAccountsCall(t, w) ==
    /\ SWStart(t)
    /\ CanRLock(wl[w].mu)
    /\ wl' = [wl EXCEPT ![w].mu = RLock(@, t)]
    /\ sth' = [sth EXCEPT ![t] = [SIdle EXCEPT !.pc = "a_copy", !.w = w]]
    /\ UNCHANGED hist
    /\ UNCHANGED <<hdVars, call>>

\* the pointers collected by the loop over w.accounts (map order is not fixed)
AccountsOf(w) == {w.accounts[a] : a \in DOMAIN w.accounts}

SWAccountsCopy(t) ==
    /\ sth[t].pc = "a_copy"
    /\ sth' = [sth EXCEPT ![t].pc = "a_unlock", ![t].err = "nil",
                          ![t].list = AccountsOf(wl[sth[t].w])]
    /\ UNCHANGED <<wl, hist, swCalls>>
    /\ UNCHANGED <<hdVars, call>>

\* The caller keeps the returned slice.  hist.held (history) notes, for each
\* pointer in it, the object it points to (the registry entry at ptr, made by
\* the gen-th Derive of its index) and the Account read through it now.
HeldPointers(w, list) ==
    {[ptr |-> a.Address, gen |-> hist[w].times[a.Index], seen |-> a] : a \in list}

SWAccountsReturn(t) ==
    /\ sth[t].pc = "a_unlock"
    /\ wl' = [wl EXCEPT ![sth[t].w].mu = RUnlock(@, t)]
    /\ hist' = [hist EXCEPT ![sth[t].w].held = HeldPointers(sth[t].w, sth[t].list)]
    /\ sth' = [sth EXCEPT ![t] = SIdle]
    /\ UNCHANGED swCalls
    /\ UNCHANGED <<hdVars, call>>

\* ---- GetPrivateKeyHex(address) and GetMnemonic() ----
\* RLock and the body; a panic unwinds through the deferred RUnlock
SWGetPrivateKeyHexCall(t, w, address) ==
    /\ SWStart(t)
    /\ CanRLock(wl[w].mu)
    /\ wl' = [wl EXCEPT ![w].mu = RLock(@, t)]
    /\ LET r == GetPrivateKeyHex(wl[w], address)
       IN  sth' = [sth EXCEPT ![t] = [SIdle EXCEPT !.pc = "g_unlock", !.w = w,
                                                  !.err = r.err, !.val = r.hex]]
    /\ UNCHANGED hist
    /\ UNCHANGED <<hdVars, call>>

SWGetMnemonicCall(t, w) ==
    /\ SWStart(t)
    /\ CanRLock(wl[w].mu)
    /\ wl' = [wl EXCEPT ![w].mu = RLock(@, t)]
    /\ LET r == GetMnemonic(wl[w])
       IN  sth' = [sth EXCEPT ![t] = [SIdle EXCEPT !.pc = "m_unlock", !.w = w,
                                                  !.err = r.err, !.val = r.mnemonic]]
    /\ UNCHANGED hist
    /\ UNCHANGED <<hdVars, call>>

\* the deferred w.mu.RUnlock() and the return of either
SWGetReturn(t) ==
    /\ sth[t].pc \in {"g_unlock", "m_unlock"}
    /\ wl' = [wl EXCEPT ![sth[t].w].mu = RUnlock(@, t)]
    /\ sth' = [sth EXCEPT ![t] = SIdle]
    /\ UNCHANGED <<hist, swCalls>>
    /\ UNCHANGED <<hdVars, call>>

NextSW ==
    \E t \in Threads :
        \/ \E w \in Wallets, index \in 0..MaxIndex : SWDeriveCall(t, w, index)
        \/ SWDeriveKey(t)
        \/ SWDeriveStore(t)
        \/ SWDeriveReturn(t)
        \/ \E w \in Wallets : SWCloseCall(t, w)
        \/ SWCleanup(t)
        \/ SWCloseReturn(t)
        \/ \E w \in Wallets : SWAccountsCall(t, w)
        \/ SWAccountsCopy(t)
        \/ SWAccountsReturn(t)
        \/ \E w \in Wallets : \E a \in DOMAIN wl[w].accounts :
              SWGetPrivateKeyHexCall(t, w, a)
        \/ \E w \in Wallets : SWGetMnemonicCall(t, w)
        \/ SWGetReturn(t)

\* no hdwallet.Wallet exists
NoHD ==
    /\ hdArr = <<>>
    /\ hdLen = 0
    /\ hdPaths = <<>>
    /\ stateLock = [w |-> "none", r |-> {}]
    /\ th = <<>>
    /\ calls = 0
    /\ hdSeed = <<>>

Init == InitSW /\ NoHD /\ NoPkg
Next == NextSW
Spec == Init /\ [][Next]_vars

(***************************************************************************)
(* Package wallet: GenerateMnemonic, validateMnemonic and the constructors *)
(* as functions of their arguments.  A behaviour is one call: Init draws   *)
(* the function and its arguments, the action applies it.                  *)
(***************************************************************************)
MinEntropyBits == 128
MaxEntropyBits == 256

\* one word for every 16 bits
wordCountPerHalfWord(entropyBits) == entropyBits \div 16

\* the switch on entropyBits; 0 stands for its default branch
wordCount(entropyBits) ==
    CASE entropyBits = 128 -> 12
      [] entropyBits = 160 -> 15
      [] entropyBits = 192 -> 18
      [] entropyBits = 224 -> 21
      [] entropyBits = 256 -> 24
      [] OTHER -> 0

\* rand.Read(randomBytes) for word i: the two bytes the random source gives.
\* A source is [mul, add]; its i-th 16 bits are mul * i + add.  (crypto/rand
\* Read does not return an error, so the branch for one is never taken.)
randRead(source, i) ==
    LET v == (source.mul * i + source.add) % 65536
    IN  <<v \div 256, v % 256>>

\* uint16(randomBytes[0])<<8 | uint16(randomBytes[1])
randomValue(randomBytes) == (randomBytes[1] * 256 + randomBytes[2]) % 65536

\* GenerateMnemonic without the checks of entropyBits
GenerateMnemonicUnchecked(entropyBits, source) ==
    LET n == (entropyBits \div 32) * 3
        words == [i \in 1..n |->
                     BIP39WordList[(randomValue(randRead(source, i)) % 2048) + 1]]
    IN  [phrase |-> Join(words), err |-> "nil"]

\* GenerateMnemonic
GenerateMnemonic(entropyBits, source) ==
    IF \/ entropyBits < MinEntropyBits
       \/ entropyBits > MaxEntropyBits
       \/ entropyBits % 32 # 0
    THEN [phrase |-> <<>>, err |-> "ErrInvalidEntropy"]
    ELSE IF wordCount(entropyBits) = 0
    THEN [phrase |-> <<>>, err |-> "ErrInvalidEntropy"]
    ELSE LET words == [i \in 1..wordCount(entropyBits) |->
                 BIP39WordList[(randomValue(randRead(source, i)) % 2048) + 1]]
         IN  [phrase |-> Join(words), err |-> "nil"]

\* SimpleWallet.Status
Status(w) == IF w.isLocked THEN "Locked" ELSE "Unlocked"

\* ---- the hdwallet keys as hexadecimal strings ----
\* hexutil.Encode(b): "0x" and the digits
hexutilEncode(b) == <<"0", "x">> \o EncodeToString(b)

\* s[from:] of a Go string, from counted from 0
StrFrom(s, from) == SubSeq(s, from + 1, Len(s))

\* math.PaddedBigBytes(bigint, n), bigint given by its big-endian bytes
PaddedBigBytes(bytes, n) ==
    IF Len(bytes) >= n THEN bytes
    ELSE [i \in 1..(n - Len(bytes)) |-> 0] \o bytes

\* crypto.FromECDSA(priv): D in 32 bytes
FromECDSA(d) == PaddedBigBytes(d, 32)

\* the body of hdwallet Wallet.PrivateKeyHex, privateKeyBytes being what
\* PrivateKeyBytes returned
PrivateKeyHex(privateKeyBytes) ==
    LET encoded == hexutilEncode(privateKeyBytes)
        privateKeyHex == StrFrom(encoded, 2)
    IN  IF privateKeyHex[3] = "0" /\ privateKeyHex[4] = "0"
        THEN StrFrom(privateKeyHex, 2)
        ELSE privateKeyHex

\* ---- the arguments ----
\* 32-byte keys: the two leading bytes vary, byte i of the others is i
LeadingBytes == {0, 1, 171}

KeyInputs ==
    {[i \in 1..32 |-> IF i = 1 THEN b1 ELSE IF i = 2 THEN b2 ELSE i] :
        b1 \in LeadingBytes, b2 \in LeadingBytes}

\* the wallet of the tests after Derive(0), had the digest been keyBytes
DerivedWith(keyBytes) ==
    LET w == NewFromMnemonic(TestMnemonic12, NilConfig, "k1").wallet
        key == newPrivateKey(<<Lit(keyBytes)>>)
        acc == SWAccount(pubkeyToAddress(key.PublicKey), BasePath(0), 0, key)
    IN  [w EXCEPT !.accounts = MapSet(@, acc.Address, acc),
                  !.paths = MapSet(@, acc.Address, BasePath(0))]

\* the order N of the curve elliptic.P256(), in 32 big-endian bytes
P256Order ==
    <<255, 255, 255, 255, 0, 0, 0, 0, 255, 255, 255, 255, 255, 255, 255, 255,
      188, 230, 250, 173, 167, 23, 158, 132, 243, 185, 202, 194, 252, 99, 37, 81>>

\* a < b for big-endian numbers of the same number of bytes
RECURSIVE BytesLess(_, _)
BytesLess(a, b) ==
    IF a = <<>> THEN FALSE
    ELSE IF Head(a) # Head(b) THEN Head(a) < Head(b)
    ELSE BytesLess(Tail(a), Tail(b))

\* digests that are not valid scalars (0, N, 2^256 - 1), N - 1, and a usual one
ScalarInputs ==
    {[i \in 1..32 |-> 0], P256Order, [i \in 1..32 |-> 255],
     [P256Order EXCEPT ![32] = 80], [i \in 1..32 |-> i]}

EntropyInputs ==
    {-32, 0, 32, 96, 100, 127, 128, 129, 160, 191, 192, 224, 255, 256, 257,
     288, 300, 320}

\* random sources: all zero bits, all one bits, 2051 every time, and a walk
RandomSources ==
    {[mul |-> 0, add |-> 0], [mul |-> 0, add |-> 65535],
     [mul |-> 0, add |-> 2051], [mul |-> 2731, add |-> 7]}

\* a phrase is given by its words and by how they are set apart
WordCounts == {0, 1, 11, 12, 13, 15, 18, 21, 24, 25}

WordSeqs ==
    UNION {{[i \in 1..n |-> "abandon"],
            [i \in 1..n |-> IF i = n THEN "about" ELSE "abandon"],
            [i \in 1..n |-> IF i = n THEN "invalid" ELSE "abandon"],
            [i \in 1..n |-> IF i = 1 THEN "ABANDON" ELSE "zoo"]} :
           n \in WordCounts}

Layouts == {"single", "double", "padded", "lines"}

\* the string with these words in this layout
PhraseOf(words, layout) ==
    CASE layout = "single" -> Join(words)
      [] layout = "double" ->
            [i \in 1..(IF Len(words) = 0 THEN 0 ELSE 3 * Len(words) - 2) |->
                IF i % 3 = 1 THEN words[(i + 2) \div 3] ELSE " "]
      [] layout = "padded" -> <<" ">> \o Join(words) \o <<" ">>
      [] layout = "lines" ->
            [i \in 1..(2 * Len(words)) |->
                IF i % 2 = 1 THEN words[(i + 1) \div 2]
                ELSE IF i % 4 = 0 THEN "\n" ELSE "\t"]

\* seed arguments: nil, empty, and buffers of caller input
SeedInputs ==
    {[nil |-> TRUE, len |-> 0]}
    \cup {[nil |-> FALSE, len |-> n] : n \in {0, 1, 32, 63, 64, 65, 128}}

\* the bytes of a seed argument
SeedOf(seed) ==
    IF seed.len = 0 THEN <<>> ELSE <<Chunk("in", "seed", 1, seed.len)>>

\* the words a fifteen-word phrase has after the twelve of TestMnemonic12,
\* as they stand in the string: each with the space before it
TrailingWords == <<" ", "abandon", " ", "abandon", " ", "about">>
TestMnemonic15 == TestMnemonic12 \o TrailingWords

\* (mnemonic, passphrase) pairs generateSeedFromMnemonic is called with
SeedPairs ==
    [mnemonic : {TestMnemonic12, TestMnemonic15},
     passphrase : {<<>>, <<"TREZOR">>, TrailingWords}]

PendingCall(fn, arg) == [fn |-> fn, arg |-> arg, ret |-> <<>>, done |-> FALSE]

InitPkgCall ==
    call \in
        {PendingCall("GenerateMnemonic", [entropyBits |-> e, source |-> r]) :
            e \in EntropyInputs, r \in RandomSources}
        \cup
        {PendingCall("validateMnemonic", [words |-> ws, layout |-> l]) :
            ws \in WordSeqs, l \in Layouts}
        \cup
        {PendingCall("NewFromMnemonic",
                     [words |-> ws, layout |-> l, config |-> c, rnd |-> k]) :
            ws \in WordSeqs, l \in {"single", "padded"}, c \in Configs,
            k \in RandomKeys}
        \cup
        {PendingCall("NewFromSeed", [seed |-> sd, config |-> c, rnd |-> k]) :
            sd \in SeedInputs, c \in Configs, k \in RandomKeys}
        \cup
        {PendingCall("generateSeedFromMnemonic", p) : p \in SeedPairs}
        \cup
        {PendingCall("GetPrivateKeyHex", [key |-> k]) : k \in KeyInputs}
        \cup
        {PendingCall("Derive", [key |-> k]) : k \in ScalarInputs}
        \cup
        {PendingCall("PrivateKeyHex", [path |-> p, key |-> k]) :
            p \in HDPaths, k \in KeyInputs}

Returned(ret) == [call EXCEPT !.ret = ret, !.done = TRUE]

PkgGenerateMnemonic ==
    /\ call.fn = "GenerateMnemonic"
    /\ ~call.done
    /\ call' = Returned(GenerateMnemonic(call.arg.entropyBits, call.arg.source))
    /\ UNCHANGED <<hdVars, swVars>>

PkgValidateMnemonic ==
    /\ call.fn = "validateMnemonic"
    /\ ~call.done
    /\ call' = Returned(validateMnemonic(PhraseOf(call.arg.words, call.arg.layout)))
    /\ UNCHANGED <<hdVars, swVars>>

PkgGenerateSeedFromMnemonic ==
    /\ call.fn = "generateSeedFromMnemonic"
    /\ ~call.done
    /\ call' = Returned(generateSeedFromMnemonic(call.arg.mnemonic,
                                                 call.arg.passphrase))
    /\ UNCHANGED <<hdVars, swVars>>

PkgNewFromMnemonic ==
    /\ call.fn = "NewFromMnemonic"
    /\ ~call.done
    /\ call' = Returned(NewFromMnemonic(PhraseOf(call.arg.words, call.arg.layout),
                                        call.arg.config, call.arg.rnd))
    /\ UNCHANGED <<hdVars, swVars>>

PkgNewFromSeed ==
    /\ call.fn = "NewFromSeed"
    /\ ~call.done
    /\ call' = Returned(NewFromSeed(SeedOf(call.arg.seed), call.arg.config,
                                    call.arg.rnd))
    /\ UNCHANGED <<hdVars, swVars>>

\* hdwallet Wallet.PrivateKeyHex for an account whose path derives the key
\* call.arg.key
PkgPrivateKeyHex ==
    /\ call.fn = "PrivateKeyHex"
    /\ ~call.done
    /\ call' = Returned(
           IF derivePrivateKey(call.arg.path).err # "nil"
           THEN [err |-> derivePrivateKey(call.arg.path).err, hex |-> <<>>]
           ELSE [err |-> "nil",
                 hex |-> PrivateKeyHex(FromECDSA(BigBytes(call.arg.key)))])
    /\ UNCHANGED <<hdVars, swVars>>

\* SimpleWallet.GetPrivateKeyHex(account.Address) for the derived account
PkgGetPrivateKeyHex ==
    /\ call.fn = "GetPrivateKeyHex"
    /\ ~call.done
    /\ LET w == DerivedWith(call.arg.key)
       IN  \E a \in DOMAIN w.accounts : call' = Returned(GetPrivateKeyHex(w, a))
    /\ UNCHANGED <<hdVars, swVars>>

\* SimpleWallet.Derive(0) on the wallet of the tests, the digest of seed and
\* path being call.arg.key: derivePrivateKey returns the key and a nil error
\* whatever the digest is, and Derive stores and returns the account
PkgDerive ==
    /\ call.fn = "Derive"
    /\ ~call.done
    /\ LET w == DerivedWith(call.arg.key)
       IN  \E a \in DOMAIN w.accounts :
               call' = Returned([err |-> "nil", account |-> w.accounts[a],
                                 stored |-> AccountsOf(w)])
    /\ UNCHANGED <<hdVars, swVars>>

NextPkg ==
    \/ PkgPrivateKeyHex
    \/ PkgDerive
    \/ PkgGetPrivateKeyHex
    \/ PkgGenerateMnemonic
    \/ PkgValidateMnemonic
    \/ PkgGenerateSeedFromMnemonic
    \/ PkgNewFromMnemonic
    \/ PkgNewFromSeed

\* the package functions alone
InitPkg == InitPkgCall /\ NoHD /\ NoSW

SpecPkg == InitPkg /\ [][NextPkg]_vars

(***************************************************************************)
(* Claims about the hdwallet Wallet                                        *)
(***************************************************************************)
\* every call has returned
Quiescent == \A t \in Threads : th[t].pc = "idle"

\* an entry with address a is in the list Accounts() returns
Listed(a) == \E i \in 1..hdLen : hdArr[i].Address = a

\* Contains(account) for an account with address a
Contains(a) == a \in DOMAIN hdPaths

\* thread t is inside a method that holds stateLock for reading
InsideReader(t) ==
    th[t].pc \in {"a_copy", "c_lookup", "x_sign", "r_unlock", "x_unlock"}

\* thread t is inside Unpin
InsideUnpin(t) ==
    th[t].pc \in {"u_range", "u_scan", "u_slice", "u_write", "u_delete", "u_unlock"}

\* thread t is inside Derive
InsideDerive(t) ==
    th[t].pc \in {"d_addr", "d_ret", "d_lock", "d_check", "d_append", "d_setpath",
                  "d_unlock"}

\* C3: whenever every call has returned, no two entries of the accounts list
\* have the same address.
C3_NoDuplicateAccounts ==
    Quiescent =>
        \A i, j \in 1..hdLen : i # j => hdArr[i].Address # hdArr[j].Address

\* C4: whenever every call has returned, Contains(account) is true exactly for
\* the addresses that have an entry in the list Accounts() returns.
C4_ContainsIffListed ==
    Quiescent => \A a \in Addresses : Contains(a) <=> Listed(a)

\* C5: an Unpin that no other call overlaps, of an address that was not pinned
\* (Contains false) when it began, returns "Account not found." and leaves the
\* accounts list and the path index as they were.
C5_UnpinOfUnpinnedFails ==
    \A t \in Threads :
        (th[t].pc = "u_unlock" /\ th[t].solo /\ th[t].acct \notin DOMAIN th[t].pre.paths)
        => /\ th[t].ret.err = "Account not found."
           /\ hdList = th[t].pre.list
           /\ hdPaths = th[t].pre.paths

\* C6: an Unpin that no other call overlaps, of an address that was pinned
\* (Contains true) when it began, returns nil and removes exactly that address
\* from the list and from the path index; the other entries keep their order.
C6_UnpinOfPinnedRemoves ==
    \A t \in Threads :
        (th[t].pc = "u_unlock" /\ th[t].solo /\ th[t].acct \in DOMAIN th[t].pre.paths)
        => /\ th[t].ret.err = "nil"
           /\ ~Listed(th[t].acct)
           /\ ~Contains(th[t].acct)
           /\ hdLen = Len(th[t].pre.list) - 1
           /\ hdList = SelectSeq(th[t].pre.list, LAMBDA e : e.Address # th[t].acct)
           /\ hdPaths = MapDelete(th[t].pre.paths, th[t].acct)

\* C7: no step of a call Derive(path, false) changes the accounts list or the
\* path index, and the call returns the account derived at path.
C7_DeriveWithoutPinLeavesRegistry ==
    [][\A t \in Threads :
          /\ (/\ th'[t].pc # th[t].pc
              /\ \/ InsideDerive(t) /\ ~th[t].pin
                 \/ th'[t].pc = "d_addr" /\ ~th'[t].pin)
             => UNCHANGED <<hdArr, hdLen, hdPaths>>
          /\ (th'[t].pc = "d_ret" /\ ~th'[t].pin /\ th'[t].ret.err = "nil")
             => th'[t].ret.val =
                  Account(deriveAddress(th'[t].path).address, th'[t].path)
      ]_vars

\* C7 witness: Derive(path, false) has returned an account on a wallet that
\* holds a pinned account.
C7_Witness ==
    \E t \in Threads :
        /\ th[t].pc = "d_ret"
        /\ ~th[t].pin
        /\ th[t].ret.err = "nil"
        /\ hdLen >= 1
        /\ ~Listed(th[t].acct)

\* C8: while Unpin is about to write the accounts list or the path index, no
\* other thread is inside Accounts, Contains, SignTx or another Unpin.
C8_UnpinWritesExclusively ==
    \A t, u \in Threads :
        (t # u /\ th[t].pc \in {"u_write", "u_delete"})
        => ~(InsideReader(u) \/ InsideUnpin(u))

\* C9: while SignHash is about to read the path index, no other thread is
\* about to write it.
C9_SignHashLookupNeverRaces ==
    \A t, u \in Threads :
        (t # u /\ th[t].pc = "sh_lookup") => th[u].pc \notin {"d_setpath", "u_delete"}


\* C12: when hdwallet Close returns, every byte of the seed buffer the
\* wallet holds is zero.
C12_HDCloseZeroesSeed ==
    \A t \in Threads : th[t].pc = "cl_ret" => AllZero(hdSeed)

\* the key of the path the path index holds for address a
RegisteredKey(a) == derivePrivateKey(hdPaths[a]).key

\* C13: SignHash returns ErrUnknownAccount and no signature when its lookup
\* finds the account's address absent from the path index (never pinned,
\* derived without pin, or unpinned), and a signature made with the key of
\* the registered path when the address is in the index.
C13_SignHashNeedsRegisteredAccount ==
    [][\A t \in Threads :
         (th[t].pc = "sh_lookup" /\ th'[t].pc = "sh_ret")
         => IF th[t].acct \in DOMAIN hdPaths
            THEN /\ th'[t].ret.err = "nil"
                 /\ th'[t].ret.val = Sign("hash", RegisteredKey(th[t].acct))
            ELSE th'[t].ret = Ret("ErrUnknownAccount", <<>>)]_vars

\* SignHash is returning ErrUnknownAccount, with no other call running, for
\* an account that was pinned and then unpinned (its entry is still in the
\* backing array, behind the end of the list)
C13_Witness ==
    \E t \in Threads :
        /\ th[t].pc = "sh_ret" /\ th[t].solo
        /\ th[t].ret.err = "ErrUnknownAccount"
        /\ ~Listed(th[t].acct)
        /\ \E i \in 1..Len(hdArr) : hdArr[i].Address = th[t].acct

\* C14: SignTx returns either a transaction signed with the key of the path
\* registered for account.Address, whose recovered sender is account.Address,
\* or an error and no transaction: ErrUnknownAccount when the address is not
\* registered, 'Wrong sender' only for a registered one.
C14_SignTxSenderIsAccount ==
    [][\A t \in Threads :
         (th[t].pc = "x_sign" /\ th'[t].pc = "x_unlock")
         => IF th'[t].ret.err = "nil"
            THEN /\ th[t].acct \in DOMAIN hdPaths
                 /\ th'[t].ret.val = Sign("tx", RegisteredKey(th[t].acct))
                 /\ Sender(th'[t].ret.val) = th[t].acct
            ELSE /\ th'[t].ret.val = <<>>
                 /\ th[t].acct \notin DOMAIN hdPaths
                       => th'[t].ret.err = "ErrUnknownAccount"
                 /\ th[t].acct \in DOMAIN hdPaths
                       => th'[t].ret.err = "Wrong sender"]_vars

\* SignTx has signed for a pinned account while another account is pinned too
C14_Witness ==
    \E t \in Threads :
        /\ th[t].pc = "x_unlock"
        /\ th[t].ret.err = "nil"
        /\ th[t].acct \in DOMAIN hdPaths
        /\ Sender(th[t].ret.val) = th[t].acct
        /\ Cardinality(DOMAIN hdPaths) >= 2

\* C15: two passphrase-qualified signing calls (SignHashWithPassphrase, or
\* SignTxWithPassphrase) for the same pinned account and the same input
\* but with different passphrases do not sign with the same key.
C15_PassphraseChangesSigningKey ==
    \A t, u \in Threads :
        (/\ t # u
         /\ th[t].pc = th[u].pc /\ th[t].pc \in {"sh_ret", "x_unlock"}
         /\ th[t].acct = th[u].acct
         /\ th[t].pass # <<>> /\ th[u].pass # <<>> /\ th[t].pass # th[u].pass
         /\ th[t].ret.err = "nil" /\ th[u].ret.err = "nil")
        => th[t].ret.val.signedBy # th[u].ret.val.signedBy

\* C25: in every reachable state the path the path index holds for an
\* address derives to that address, whatever the caller does afterwards to
\* the slice it passed to Derive(path, true).
C25_RegisteredPathIsImmutable ==
    \A a \in DOMAIN hdPaths :
        /\ deriveAddress(hdPaths[a]).err = "nil"
        /\ deriveAddress(hdPaths[a]).address = a


\* the number of entries of the accounts list that have address a
Entries(a) == Cardinality({i \in 1..hdLen : hdArr[i].Address = a})

\* C28: an address becomes pinned only by a step of a successful
\* Derive(path, true) for it, stops being pinned only by a step of a
\* successful Unpin of it, and when a Derive(path, true) returns without
\* error, also after an Unpin, Contains is true for its address and the
\* accounts list has exactly one entry for it.
C28_AddressLifeCycle ==
    [][/\ \A a \in Addresses :
            /\ (~Contains(a) /\ a \in DOMAIN hdPaths')
               => \E t \in Threads :
                     /\ th[t].pc = "d_setpath" /\ th[t].pin /\ th[t].acct = a
                     /\ th'[t].ret.err = "nil"
            /\ (Contains(a) /\ a \notin DOMAIN hdPaths')
               => \E t \in Threads :
                     /\ th[t].pc = "u_delete" /\ th[t].acct = a
                     /\ th'[t].ret.err = "nil"
       /\ \A t \in Threads :
            (th[t].pc = "d_unlock" /\ th'[t].pc = "idle" /\ th[t].ret.err = "nil")
            => (Contains(th[t].acct) /\ Entries(th[t].acct) = 1)
      ]_vars

(***************************************************************************)
(* Claims about the SimpleWallet                                           *)
(***************************************************************************)
\* no call on wallet w is in progress
SWQuiescent(w) == \A t \in Threads : sth[t].w # w

\* the indices Derive has returned an account for, on wallet w
DerivedIndices(w) == {i \in 0..MaxIndex : hist[w].times[i] > 0}

\* the Derive calls on wallet w had pairwise distinct indices
DistinctIndices(w) == \A i \in 0..MaxIndex : hist[w].times[i] <= 1

\* the set of accounts holds exactly one account for each derived index of w
OnePerIndex(accts, w) ==
    /\ Cardinality(accts) = Cardinality(DerivedIndices(w))
    /\ \A i \in DerivedIndices(w) :
          Cardinality({a \in accts : a.Index = i}) = 1

\* C1: when the Derive calls made on a wallet by the threads had pairwise
\* distinct indices and all have returned, the registry holds exactly one
\* account per derived index, and so does the list a then running Accounts() returns:
\* no update is lost, no entry is duplicated.
C1_OneAccountPerDerivedIndex ==
    \A w \in Wallets :
        /\ (SWQuiescent(w) /\ DistinctIndices(w))
              => /\ OnePerIndex(AccountsOf(wl[w]), w)
                 /\ DOMAIN wl[w].paths = DOMAIN wl[w].accounts
        /\ \A t \in Threads :
              (/\ sth[t].pc = "a_unlock" /\ sth[t].w = w
               /\ \A u \in Threads \ {t} : sth[u].w # w
               /\ DistinctIndices(w))
              => OnePerIndex(sth[t].list, w)

\* Accounts() is returning after two threads derived indices 0 and 1
C1_Witness ==
    \E t \in Threads, w \in Wallets :
        /\ sth[t].pc = "a_unlock" /\ sth[t].w = w
        /\ \A u \in Threads \ {t} : sth[u].pc = "idle"
        /\ hist[w].times[0] = 1 /\ hist[w].times[1] = 1
        /\ Cardinality(sth[t].list) = 2

\* C2: for two wallets made by NewFromMnemonic from the same mnemonic and
\* the same passphrase, any two accounts their Derive calls returned for the
\* same index have the same address, private key and public key.
C2_SameInputsSameKeys ==
    \A a, b \in Wallets :
        (/\ a # b
         /\ hist[a].fromMnemonic /\ hist[b].fromMnemonic
         /\ hist[a].mnemonic = hist[b].mnemonic
         /\ hist[a].passphrase = hist[b].passphrase)
        => \A x \in hist[a].results, y \in hist[b].results :
              x.Index = y.Index => x = y

\* C10: when Close returns, every byte of the seed buffer the wallet held is
\* zero and the private scalar of every account in the registry is zero.
C10_CloseZeroesSecrets ==
    \A t \in Threads :
        sth[t].pc = "k_unlock" =>
            LET w == wl[sth[t].w]
            IN  /\ ByteLen(w.seed.buf) = SeedLength
                /\ AllZero(w.seed.buf)
                /\ \A a \in DOMAIN w.accounts :
                      w.accounts[a].PrivateKey.D = SetInt64Zero(w.accounts[a].PrivateKey.D)

\* Close is returning on a wallet that held a seed and has an account in the registry
C10_Witness ==
    \E t \in Threads :
        /\ sth[t].pc = "k_unlock"
        /\ wl[sth[t].w].accounts # <<>>
        /\ hist[sth[t].w].results # {}
        /\ \A x \in hist[sth[t].w].results : x.D # SetInt64Zero(x.D)


\* the wallet is as a Close leaves it: no seed, no private key in the registry
ClosedState(w) ==
    /\ w.seed.nil
    /\ \A a \in DOMAIN w.accounts : w.accounts[a].PrivateKey.nil

\* C11: a Close that runs on a wallet an earlier Close has left, from the
\* same or another thread, returns nil and leaves the wallet state exactly
\* as it found it.
C11_CloseIsIdempotent ==
    [][\A t \in Threads :
         (/\ sth[t].pc = "k_clean" /\ sth'[t].pc = "k_unlock"
          /\ ClosedState(wl[sth[t].w]))
         => /\ wl'[sth[t].w] = wl[sth[t].w]
            /\ sth'[t].err = "nil"]_vars

\* a later Close is returning on a wallet that has accounts in its registry
C11_Witness ==
    \E t \in Threads :
        /\ sth[t].pc = "k_unlock"
        /\ hist[sth[t].w].closes >= 1
        /\ wl[sth[t].w].accounts # <<>>
        /\ ClosedState(wl[sth[t].w])


\* C16: for every pointer of the slice a caller obtained from Accounts(),
\* as long as it still points to the object the registry holds, the account
\* read through it is the account the caller obtained: later Derive and
\* Close calls do not change it.
C16_ObtainedAccountsDoNotChange ==
    \A w \in Wallets :
        \A h \in hist[w].held :
            (/\ h.ptr \in DOMAIN wl[w].accounts
             /\ hist[w].times[h.seen.Index] = h.gen)
            => wl[w].accounts[h.ptr] = h.seen


(***************************************************************************)
(* Claims about the package functions                                      *)
(***************************************************************************)
ValidEntropy == {128, 160, 192, 224, 256}

\* the call of fn has returned
Done(fn) == call.fn = fn /\ call.done

\* C17: for every entropyBits in {128,160,192,224,256}, GenerateMnemonic
\* returns no error and a phrase of exactly entropyBits/32*3 words, each of
\* them a word of the dictionary, and validateMnemonic accepts the phrase.
C17_GenerateMnemonicValidEntropy ==
    (Done("GenerateMnemonic") /\ call.arg.entropyBits \in ValidEntropy)
    => LET words == Fields(call.ret.phrase)
       IN  /\ call.ret.err = "nil"
           /\ Len(words) = (call.arg.entropyBits \div 32) * 3
           /\ \A i \in 1..Len(words) :
                  \E j \in 1..2048 : words[i] = BIP39WordList[j]
           /\ validateMnemonic(call.ret.phrase)

\* a 24-word phrase of differing words has been generated
C17_Witness ==
    /\ Done("GenerateMnemonic")
    /\ call.arg.entropyBits = 256
    /\ call.ret.err = "nil"
    /\ Len(Fields(call.ret.phrase)) = 24
    /\ Cardinality({Fields(call.ret.phrase)[i] : i \in 1..24}) > 1


\* C18: for every entropyBits outside {128,160,192,224,256}, GenerateMnemonic
\* returns ErrInvalidEntropy and the empty string.
C18_GenerateMnemonicInvalidEntropy ==
    (Done("GenerateMnemonic") /\ call.arg.entropyBits \notin ValidEntropy)
    => /\ call.ret.err = "ErrInvalidEntropy"
       /\ call.ret.phrase = <<>>

\* a multiple of 32 above the range has been refused
C18_Witness ==
    /\ Done("GenerateMnemonic")
    /\ call.arg.entropyBits = 288
    /\ call.ret.err = "ErrInvalidEntropy"


AcceptedWords(words) ==
    /\ Len(words) \in {12, 15, 18, 21, 24}
    /\ \A i \in 1..Len(words) : \E j \in 1..2048 : words[i] = BIP39WordList[j]

\* the constructor returned a wallet, and no error
MadeUnlocked(ret) ==
    /\ ret.err = "nil"
    /\ ret.wallet # NoWallet
    /\ Status(ret.wallet) = "Unlocked"

\* C20: NewFromSeed returns ErrInvalidSeed and a nil wallet for every seed
\* that is not 64 bytes long (nil included), NewFromMnemonic returns
\* ErrInvalidMnemonic and a nil wallet for every phrase validateMnemonic
\* rejects (the empty one included); for valid input and any config (nil
\* included) both return a nil error and a wallet whose Status is "Unlocked".
C20_ConstructorsAllOrNothing ==
    /\ Done("NewFromSeed")
       => IF call.arg.seed.len = 64
          THEN MadeUnlocked(call.ret)
          ELSE call.ret = [err |-> "ErrInvalidSeed", wallet |-> NoWallet]
    /\ Done("NewFromMnemonic")
       => IF AcceptedWords(call.arg.words)
          THEN MadeUnlocked(call.ret)
          ELSE call.ret = [err |-> "ErrInvalidMnemonic", wallet |-> NoWallet]

\* a nil seed has been refused
C20_Witness ==
    /\ Done("NewFromSeed")
    /\ call.arg.seed.nil
    /\ call.arg.config = NilConfig
    /\ call.ret.err = "ErrInvalidSeed"
    /\ call.ret.wallet = NoWallet


\* C21: hdwallet PrivateKeyHex returns the whole 32-byte private key as
\* exactly 64 hexadecimal digits without 0x: no byte is dropped, whatever
\* the leading bytes are.
C21_PrivateKeyHexIsWholeKey ==
    (Done("PrivateKeyHex") /\ deriveAddress(call.arg.path).err = "nil")
    => /\ call.ret.err = "nil"
       /\ Len(call.ret.hex) = 64
       /\ call.ret.hex = EncodeToString(call.arg.key)


\* C22: SimpleWallet.GetPrivateKeyHex returns the private key of a derived
\* account as exactly 64 hexadecimal digits, also when the most significant
\* byte of the key is zero.
C22_GetPrivateKeyHexHas64Digits ==
    Done("GetPrivateKeyHex")
    => /\ call.ret.err = "nil"
       /\ Len(call.ret.hex) = 64
       /\ call.ret.hex = EncodeToString(call.arg.key)


\* C23: on one wallet, the accounts Derive has returned for one index, before
\* or after a Close, all have the same private key and the same address (a
\* Derive that fails returns no account).
C23_DeriveIgnoresClose ==
    \A w \in Wallets :
        \A x, y \in hist[w].results :
            x.Index = y.Index => (x.D = y.D /\ x.Address = y.Address)


\* C24: when Close returns, the private key of every Account that Derive has
\* returned on the wallet is zero: of those in the registry and of those an
\* overwritten registry entry pointed to (an index that was derived again).
C24_CloseZeroesEveryReturnedKey ==
    \A t \in Threads :
        sth[t].pc = "k_unlock" =>
            \A acc \in AccountsOf(wl[sth[t].w]) \cup hist[sth[t].w].replaced :
                acc.PrivateKey.D = SetInt64Zero(acc.PrivateKey.D)


\* C26: once Close has returned on a wallet, GetPrivateKeyHex for an address
\* of the registry, GetMnemonic and Derive each return an error on it, none
\* of them returns a key or the mnemonic, and none panics.
C26_SensitiveCallsFailAfterClose ==
    \A t \in Threads :
        (sth[t].pc \in {"g_unlock", "m_unlock", "s_unlock"}
         /\ hist[sth[t].w].closes >= 1)
        => /\ sth[t].err \notin {"nil", "panic"}
           /\ sth[t].val = <<>>
           /\ sth[t].acc = NoSWAccount


\* the digest is a valid private scalar of the curve: 0 < d < N
ValidScalar(keyBytes) ==
    /\ BytesLess([i \in 1..32 |-> 0], keyBytes)
    /\ BytesLess(keyBytes, P256Order)

\* C27: whenever the scalar made of the digest of seed and path is zero or
\* not below the order of the curve, Derive fails with ErrKeyDerivationFailed,
\* and returns and stores no account.
C27_InvalidScalarFailsDerive ==
    (Done("Derive") /\ ~ValidScalar(call.arg.key))
    => /\ call.ret.err = "ErrKeyDerivationFailed"
       /\ call.ret.stored = {}


\* C29: a phrase NewFromMnemonic accepts and any other phrase of the same
\* words, set apart differently, used with the same config, give wallets
\* that derive the same key and the same address for every index.
C29_SeedFromWordSequence ==
    (Done("NewFromMnemonic") /\ call.ret.err = "nil")
    => \A l \in Layouts :
          LET other == NewFromMnemonic(PhraseOf(call.arg.words, l),
                                       call.arg.config, call.arg.rnd)
          IN  /\ other.err = "nil"
              /\ \A i \in 0..MaxIndex :
                    LET k1 == swDerivePrivateKey(call.ret.wallet, BasePath(i))
                        k2 == swDerivePrivateKey(other.wallet, BasePath(i))
                    IN  /\ k1 = k2
                        /\ pubkeyToAddress(k1.PublicKey) = pubkeyToAddress(k2.PublicKey)


\* C30: two different pairs of a valid mnemonic and a passphrase never give
\* the seed hash the same bytes, so they never give the same seed.
C30_MnemonicAndPassphraseKeptApart ==
    (Done("generateSeedFromMnemonic")
        /\ validateMnemonic(call.arg.mnemonic))
    => \A p \in SeedPairs :
          (p # call.arg /\ validateMnemonic(p.mnemonic))
          => generateSeedFromMnemonic(p.mnemonic, p.passphrase) # call.ret

=============================================================================
